---- MODULE Spec2Model ----
(***************************************************************************)
(* Model of the certificate generator's DOCX template pipeline             *)
(* (src/src/lib/templateDocxRenderer.ts) and of the placeholder extractor  *)
(* (src/src/pages/TemplateMapping.tsx).                                    *)
(*                                                                         *)
(* A document part is a sequence of tokens.  A token is either one XML tag *)
(* (written as the tag's text) or one piece of character data.  The        *)
(* regular expressions of the source are transliterated element by element *)
(* into patterns over tokens; a character class of the source becomes the  *)
(* set of tokens whose text it matches.  Whitespace between tags is not    *)
(* modelled.                                                               *)
(***************************************************************************)
EXTENDS Naturals, Sequences, FiniteSets, TLC

(***************************************************************************)
(* The token alphabet.                                                     *)
(***************************************************************************)
TBodyO == "<w:body>"
TBodyC == "</w:body>"
TParaO == "<w:p>"
TParaC == "</w:p>"
TRunO == "<w:r>"
TRunC == "</w:r>"
TRPrO == "<w:rPr>"
TRPrC == "</w:rPr>"
TBold == "<w:b/>"
TTextO == "<w:t>"
TTextSp == "<w:t xml:space=\"preserve\">"
TTextC == "</w:t>"
TProof == "<w:proofErr w:type=\"spellStart\"/>"
TTab == "<w:tab/>"
TDrawO == "<w:drawing>"
TDrawC == "</w:drawing>"
TInlineO == "<wp:inline>"
TInlineC == "</wp:inline>"
TAnchorO == "<wp:anchor>"
TAnchorC == "</wp:anchor>"
TBlip == "<a:blip r:embed=\"rIdQRCodeImage\"/>"

OB == "{{"
CB == "}}"
SP == " "
OSq == "[["
CSq == "]]"
QRMarkerText == "QR_INLINE_IMG"

\* every tag of the alphabet: the tokens that contain '<' and '>'
Tags ==
  {TBodyO, TBodyC, TParaO, TParaC, TRunO, TRunC, TRPrO, TRPrC, TBold, TTextO,
   TTextSp, TTextC, TProof, TTab, TDrawO, TDrawC, TInlineO, TInlineC,
   TAnchorO, TAnchorC, TBlip}

\* character data made of [A-Za-z0-9_] only
WordToks ==
  {"Name", "CertificateNo", "AadharNo", "UnknownField", "QRCode", "Hello",
   "A", "adharNo", "adhar", "No", "Na", "me", "QR", "Code", QRMarkerText,
   "undefined", "CERT042", "name"}

\* character data that is a single letter, [A-Za-z]
LetterToks == {"A"}

\* character data that is whitespace, \s
SpaceToks == {SP}

\* values as the substitution engine writes them (XML-escaped)
ValueToks == {"Asha Rao", "CERT042", "1234-5678-9012", "R&amp;D", "undefined",
              "QR-TEXT", "data:image/png;base64,iVBORw0KGgo="}

TextToks == WordToks \cup SpaceToks \cup ValueToks \cup {OB, CB, OSq, CSq, "Name: ", ", ID: "}

Tokens == Tags \cup TextToks

(***************************************************************************)
(* Character classes of the source's regular expressions, as token sets.   *)
(***************************************************************************)
\* [^<] : character data (no token of character data contains '<')
NotLt == TextToks
\* [^}] : everything but the closing braces
NotCB == Tokens \ {CB}
\* <w:[^>]*> : any tag whose text starts with "<w:"
AnyWTag == {TBodyO, TParaO, TRunO, TRPrO, TBold, TTextO, TTextSp, TProof, TTab, TDrawO}
\* <w:r[^>]*>
RTag == {TRunO, TRPrO}
\* <w:rPr[^>]*>
RPrTag == {TRPrO}
\* <w:t[^>]*>
TTag == {TTextO, TTextSp, TTab}
\* <w:proofErr[^>]*>
ProofTag == {TProof}
\* <w:p[^>]*>
PTag == {TParaO, TProof}
\* <[^>]+>
AnyTag == Tags

(***************************************************************************)
(* A backtracking matcher with JavaScript's priorities.  A pattern is a    *)
(* sequence of elements [q, cls, cap]: q is "one" (exactly one token of    *)
(* cls), "star" (greedy, zero or more), "lazy" (zero or more, shortest     *)
(* first) or "plus" (greedy, one or more); cap is the capture group the    *)
(* matched tokens go to, 0 for none.                                       *)
(***************************************************************************)
One(cls) == [q |-> "one", cls |-> cls, cap |-> 0]
Lit(t) == One({t})
Star(cls) == [q |-> "star", cls |-> cls, cap |-> 0]
CapOne(cls, g) == [q |-> "one", cls |-> cls, cap |-> g]
CapPlus(cls, g) == [q |-> "plus", cls |-> cls, cap |-> g]
CapLazy(cls, g) == [q |-> "lazy", cls |-> cls, cap |-> g]

NoCaps == <<<<>>, <<>>, <<>>>>

Bind(caps, g, toks) == IF g = 0 THEN caps ELSE [caps EXCEPT ![g] = toks]

\* the longest run of tokens of cls starting at s[i]
RECURSIVE RunLen(_, _, _)
RunLen(s, i, cls) ==
  IF i <= Len(s) /\ s[i] \in cls THEN 1 + RunLen(s, i + 1, cls) ELSE 0

\* <<>> when pat[k..] does not match s at i, else <<[end, caps]>> for the
\* first match in the engine's order; end is the index after the match
RECURSIVE MatchFrom(_, _, _, _, _)
RECURSIVE TryLen(_, _, _, _, _, _, _)
MatchFrom(pat, k, s, i, caps) ==
  IF k > Len(pat) THEN <<[end |-> i, caps |-> caps]>>
  ELSE LET e == pat[k] IN
    IF e.q = "one"
    THEN IF i <= Len(s) /\ s[i] \in e.cls
         THEN MatchFrom(pat, k + 1, s, i + 1, Bind(caps, e.cap, <<s[i]>>))
         ELSE <<>>
    ELSE LET hi == RunLen(s, i, e.cls)
             lo == IF e.q = "plus" THEN 1 ELSE 0
         IN IF hi < lo THEN <<>>
            ELSE TryLen(pat, k, s, i, caps, IF e.q = "lazy" THEN lo ELSE hi,
                        [lo |-> lo, hi |-> hi])

TryLen(pat, k, s, i, caps, n, rng) ==
  LET e == pat[k]
      m == MatchFrom(pat, k + 1, s, i + n,
                     Bind(caps, e.cap, SubSeq(s, i, i + n - 1)))
  IN IF m # <<>> THEN m
     ELSE IF e.q = "lazy"
          THEN IF n < rng.hi THEN TryLen(pat, k, s, i, caps, n + 1, rng) ELSE <<>>
          ELSE IF n > rng.lo THEN TryLen(pat, k, s, i, caps, n - 1, rng) ELSE <<>>

\* a replacement template: literal tokens and group references
T(t) == [g |-> 0, t |-> t]
G(g) == [g |-> g, t |-> ""]

RECURSIVE Expand(_, _)
Expand(tmpl, caps) ==
  IF tmpl = <<>> THEN <<>>
  ELSE (IF Head(tmpl).g = 0 THEN <<Head(tmpl).t>> ELSE caps[Head(tmpl).g])
       \o Expand(Tail(tmpl), caps)

\* String.prototype.replace(/pat/g, tmpl): leftmost matches, left to right,
\* not overlapping (every pattern of the source starts with a literal, so no
\* match is empty)
RECURSIVE ReplaceAllFrom(_, _, _, _)
ReplaceAllFrom(pat, tmpl, s, i) ==
  IF i > Len(s) THEN <<>>
  ELSE LET m == MatchFrom(pat, 1, s, i, NoCaps)
       IN IF m # <<>>
          THEN Expand(tmpl, m[1].caps) \o ReplaceAllFrom(pat, tmpl, s, m[1].end)
          ELSE <<s[i]>> \o ReplaceAllFrom(pat, tmpl, s, i + 1)

ReplaceAll(pat, tmpl, s) == ReplaceAllFrom(pat, tmpl, s, 1)

(***************************************************************************)
(* The placeholder repair rewrites of renderDocxTemplate, in source order. *)
(***************************************************************************)
\* </w:t></w:r>
RunClose == <<Lit(TTextC), Lit(TRunC)>>
\* <w:r[^>]*><w:rPr[^>]*></w:rPr>
RunOpenFmt == <<One(RTag), One(RPrTag), Lit(TRPrC)>>
\* ...<w:t>
RunOpenT == RunOpenFmt \o <<Lit(TTextO)>>
\* ...<w:t[^>]*>
RunOpenTAny == RunOpenFmt \o <<One(TTag)>>

\* line 24
PatProofErr ==
  <<Lit(OB)>> \o RunClose \o <<One(ProofTag)>> \o RunOpenT
  \o <<CapPlus(NotLt, 1)>> \o RunClose \o <<One(ProofTag)>> \o RunOpenTAny
  \o <<Lit(CB)>>
\* line 30
PatTwoRuns ==
  <<Lit(OB)>> \o RunClose \o RunOpenT
  \o <<CapPlus(NotLt, 1)>> \o RunClose \o RunOpenTAny \o <<Lit(CB)>>
\* line 36
PatThreePieces ==
  <<Lit(OB), CapOne(LetterToks, 1)>> \o RunClose \o RunOpenT
  \o <<CapPlus(NotLt, 2)>> \o RunClose \o RunOpenT
  \o <<CapPlus(NotLt, 3)>> \o RunClose \o RunOpenTAny \o <<Lit(CB)>>
\* lines 42, 67, 74 and 80 share one shape; they differ in the class of the
\* two captures and in the tag that opens the middle text
SplitShape(c1, c2, midOpen) ==
  <<Lit(OB), CapLazy(c1, 1)>> \o RunClose \o <<One(AnyWTag)>> \o midOpen
  \o <<CapLazy(c2, 2)>> \o RunClose \o <<One(AnyWTag)>> \o RunOpenTAny
  \o <<Lit(CB)>>
\* line 42
PatAggressive == SplitShape(NotCB, NotLt, RunOpenT)
\* line 67
PatComplex == SplitShape(NotLt, NotLt, RunOpenT)
\* line 74
PatFinal == SplitShape(NotCB, NotCB, RunOpenT)
\* line 80
PatFinalAnyT == SplitShape(NotCB, NotCB, RunOpenTAny)

\* \{\{([^}]+)\}\}
Complete(g) == <<Lit(OB), CapPlus(NotCB, g), Lit(CB)>>
\* line 49
PatTab ==
  Complete(1) \o RunClose \o <<Lit(TTab)>> \o RunOpenT \o Complete(2)
\* line 55
PatAdjacent ==
  Complete(1) \o RunClose \o <<One(AnyWTag)>> \o RunOpenT \o Complete(2)
\* line 61
PatAdjacentWs ==
  Complete(1) \o RunClose \o <<One(AnyWTag)>> \o RunOpenTAny
  \o <<Star(SpaceToks)>> \o Complete(2)

\* '{{$1}}', '{{$1$2}}', '{{$1$2$3}}', '{{$1}} {{$2}}'
Tmpl1 == <<T(OB), G(1), T(CB)>>
\* mutant: '{{$2$1}}'
Tmpl12MutSwapped == <<T(OB), G(2), G(1), T(CB)>>
Tmpl12 == <<T(OB), G(1), G(2), T(CB)>>
Tmpl123 == <<T(OB), G(1), G(2), G(3), T(CB)>>
TmplPair == <<T(OB), G(1), T(CB), T(SP), T(OB), G(2), T(CB)>>

\* the ten rewrites of lines 23-82, as <<pattern, replacement>>
RepairPasses ==
  << <<PatProofErr, Tmpl1>>, <<PatTwoRuns, Tmpl1>>, <<PatThreePieces, Tmpl123>>,
     <<PatAggressive, Tmpl12>>, <<PatTab, TmplPair>>, <<PatAdjacent, TmplPair>>,
     <<PatAdjacentWs, TmplPair>>, <<PatComplex, Tmpl12>>, <<PatFinal, Tmpl12>>,
     <<PatFinalAnyT, Tmpl12>> >>

RECURSIVE ApplyPasses(_, _, _)
ApplyPasses(passes, k, xml) ==
  IF k > Len(passes) THEN xml
  ELSE ApplyPasses(passes, k + 1, ReplaceAll(passes[k][1], passes[k][2], xml))

\* lines 19-82: xmlContent after all the rewrites
Repair(xml) == ApplyPasses(RepairPasses, 1, xml)

(***************************************************************************)
(* Helpers on token sequences.                                             *)
(***************************************************************************)
\* the text of a token sequence, as one string
RECURSIVE Concat(_)
Concat(toks) == IF toks = <<>> THEN "" ELSE Head(toks) \o Concat(Tail(toks))

\* String.prototype.includes for a sequence of whole tokens
ContainsSeq(s, sub) ==
  \E i \in 1..(Len(s) + 1 - Len(sub)) : SubSeq(s, i, i + Len(sub) - 1) = sub

ContainsTok(s, t) == \E i \in 1..Len(s) : s[i] = t

\* the character data of a part, tags removed
TextOf(s) == SelectSeq(s, LAMBDA t : t \notin Tags)
TagsOf(s) == SelectSeq(s, LAMBDA t : t \in Tags)

\* s.replace(tok, ins ++ tok) for a whole-token needle: only the first
\* occurrence is replaced
InsertBeforeFirst(s, tok, ins) ==
  IF ~ContainsTok(s, tok) THEN s
  ELSE LET i == CHOOSE j \in 1..Len(s) :
                  s[j] = tok /\ \A k \in 1..(j - 1) : s[k] # tok
       IN SubSeq(s, 1, i - 1) \o ins \o SubSeq(s, i, Len(s))

Lits(toks) == [i \in 1..Len(toks) |-> T(toks[i])]

(***************************************************************************)
(* The placeholder extractor of handleTemplateUpload.                      *)
(***************************************************************************)
\* /\{\{\s*([A-Za-z0-9_]+)\s*\}\}/g
PatPlaceholder ==
  <<Lit(OB), Star(SpaceToks), CapPlus(WordToks, 1), Star(SpaceToks), Lit(CB)>>

\* the regex.exec loop: every match's group 1, left to right
RECURSIVE ExtractFrom(_, _)
ExtractFrom(s, i) ==
  IF i > Len(s) THEN {}
  ELSE LET m == MatchFrom(PatPlaceholder, 1, s, i, NoCaps)
       IN IF m # <<>>
          THEN {Concat(m[1].caps[1])} \cup ExtractFrom(s, m[1].end)
          ELSE ExtractFrom(s, i + 1)

ExtractPlaceholders(xml) == ExtractFrom(xml, 1)

(***************************************************************************)
(* {{QRCode}} to the internal marker.                                      *)
(***************************************************************************)
\* '[[QR_INLINE_IMG]]'
Marker == <<OSq, QRMarkerText, CSq>>

\* /\{\{\s*QRCode\s*\}\}/g : the name may lie in several adjacent tokens, so
\* the pattern takes the word between the braces and its text is compared
RECURSIVE MarkFrom(_, _)
MarkFrom(s, i) ==
  IF i > Len(s) THEN <<>>
  ELSE LET m == MatchFrom(PatPlaceholder, 1, s, i, NoCaps)
       IN IF m # <<>> /\ Concat(m[1].caps[1]) = "QRCode"
          THEN Marker \o MarkFrom(s, m[1].end)
          ELSE <<s[i]>> \o MarkFrom(s, i + 1)

MarkQRCode(xml) == MarkFrom(xml, 1)

(***************************************************************************)
(* The substitution engine (docxtemplater with delimiters {{ and }}), as   *)
(* renderDocxTemplate configures and calls it.  It reads the character     *)
(* data of the body in document order: a tag may lie across runs, the XML  *)
(* between its pieces is kept and the value goes where the tag started.    *)
(* A closing delimiter with no opening one, or an opening one that is not  *)
(* closed before the next opening one or the end, is a template error.  A  *)
(* name with no entry in the data renders through the engine's default     *)
(* nullGetter, which is not overridden at line 98: the text undefined.     *)
(***************************************************************************)
NullGetterText == "undefined"

\* the engine's utf8 to XML conversion of a value
XmlEscape(v) == IF v = "R&D" THEN "R&amp;D" ELSE v
XmlUnescape(t) == IF t = "R&amp;D" THEN "R&D" ELSE t

\* mutant: the data is not spread into the object handed to the engine
EnrichedMutNoSpread(d, qr) == [k \in {"QRCode"} |-> qr]

\* line 105: { ...data, QRCode: qrCodeDataUrl || '' }
Enriched(d, qr) ==
  [k \in DOMAIN d \cup {"QRCode"} |-> IF k = "QRCode" THEN qr ELSE d[k]]

ValueOf(name, scope) ==
  IF name \notin DOMAIN scope THEN <<NullGetterText>>
  ELSE IF scope[name] = "" THEN <<>> ELSE <<XmlEscape(scope[name])>>

\* index of the first delimiter at or after i, 0 when there is none
RECURSIVE NextDelim(_, _)
NextDelim(s, i) ==
  IF i > Len(s) THEN 0
  ELSE IF s[i] \in {OB, CB} THEN i ELSE NextDelim(s, i + 1)

EngineError == [ok |-> FALSE, xml |-> <<>>]

RECURSIVE EngineFrom(_, _, _)
EngineFrom(s, i, scope) ==
  IF i > Len(s) THEN [ok |-> TRUE, xml |-> <<>>]
  ELSE IF s[i] = CB THEN EngineError
  ELSE IF s[i] # OB
       THEN LET r == EngineFrom(s, i + 1, scope)
            IN IF r.ok THEN [ok |-> TRUE, xml |-> <<s[i]>> \o r.xml] ELSE r
  ELSE LET j == NextDelim(s, i + 1)
       IN IF j = 0 \/ s[j] = OB THEN EngineError
          ELSE LET inner == SubSeq(s, i + 1, j - 1)
                   r == EngineFrom(s, j + 1, scope)
               IN IF r.ok
                  THEN [ok |-> TRUE,
                        xml |-> ValueOf(Concat(TextOf(inner)), scope)
                                \o TagsOf(inner) \o r.xml]
                  ELSE r

\* lines 98-127: new Docxtemplater(zip, ...), setData(enriched), render()
EngineRender(xml, scope) == EngineFrom(xml, 1, scope)

(***************************************************************************)
(* QR image injection, lines 130-250.                                      *)
(***************************************************************************)
MediaPath == "word/media/qrcode.png"
RelsOpen == "<Relationships>"
RelsClose == "</Relationships>"
RelOther == "<Relationship Id=\"rId1\" Target=\"styles.xml\"/>"
\* line 145
RelQR == "<Relationship Id=\"rIdQRCodeImage\" Target=\"media/qrcode.png\"/>"

\* line 130: qrCodeDataUrl && qrCodeDataUrl.startsWith('data:image')
QrPng == "data:image/png;base64,iVBORw0KGgo="
IsDataImage(qr) == qr \in {QrPng}

\* line 144: relsXml.includes('rIdQRCodeImage')
HasQrRid(rels) == ContainsTok(rels, RelQR)

\* mutant: the guard of line 144 without its negation
AddRelationshipMutInverted(rels) ==
  IF ~HasQrRid(rels) THEN rels ELSE InsertBeforeFirst(rels, RelsClose, <<RelQR>>)

\* mutant: the relationship is inserted without the check of line 144
AddRelationshipMutAlways(rels) == InsertBeforeFirst(rels, RelsClose, <<RelQR>>)

\* lines 144-148
AddRelationship(rels) ==
  IF HasQrRid(rels) THEN rels ELSE InsertBeforeFirst(rels, RelsClose, <<RelQR>>)

\* lines 158-177: the inline drawing run
DrawingXml == <<TRunO, TDrawO, TInlineO, TBlip, TInlineC, TDrawC, TRunC>>
\* line 196
WrappedDrawing == <<TParaO, TRunO>> \o DrawingXml \o <<TRunC, TParaC>>
\* lines 213-243: the page-anchored drawing paragraph
AnchorXml ==
  <<TParaO, TRunO, TDrawO, TAnchorO, TBlip, TAnchorC, TDrawC, TRunC, TParaC>>

\* line 181
PatMarkerPlain == <<Lit(OSq), Lit(QRMarkerText), Lit(CSq)>>
\* lines 183 and 186: tags between the brackets and the marker text (tags
\* inside the marker text itself are outside the token alphabet)
PatMarkerSplit ==
  <<Lit(OSq), Star(AnyTag), Lit(QRMarkerText), Star(AnyTag), Lit(CSq)>>
\* line 193: in the source's string literal \\s\S is the class [\sS], so
\* only whitespace may stand between the paragraph's text and the marker
PatParaFallback ==
  <<One(PTag), Star(NotLt), CapLazy(SpaceToks, 0), Lit(QRMarkerText),
    CapLazy(SpaceToks, 0), Lit(TParaC)>>

\* lines 191, 198, 202: docXml.includes('QR_INLINE_IMG')
HasMarkerText(xml) == ContainsTok(xml, QRMarkerText)

\* lines 181-187
ReplaceMarkers(xml) ==
  LET a == ReplaceAll(PatMarkerPlain, Lits(DrawingXml), xml)
      b == ReplaceAll(PatMarkerSplit, Lits(DrawingXml), a)
  IN ReplaceAll(PatMarkerSplit, Lits(DrawingXml), b)

\* lines 189-199
ParagraphFallback(xml) ==
  IF HasMarkerText(xml)
  THEN ReplaceAll(PatParaFallback, Lits(WrappedDrawing), xml)
  ELSE xml

\* lines 202-204 and 211
QrMarkerStillPresent(xml) == HasMarkerText(xml)

\* lines 211-247
AnchorFallback(xml) ==
  IF QrMarkerStillPresent(xml)
  THEN InsertBeforeFirst(xml, TBodyC, AnchorXml)
  ELSE xml

\* mutant: the anchored insertion of lines 211-247 ahead of the paragraph
\* fallback of lines 189-199
InjectIntoBodyMutAnchorFirst(xml) ==
  ParagraphFallback(AnchorFallback(ReplaceMarkers(xml)))

\* lines 154-248: docXml as written back to the archive
InjectIntoBody(xml) == AnchorFallback(ParagraphFallback(ReplaceMarkers(xml)))

(***************************************************************************)
(* Inputs of one render call.  A body is a sequence of paragraphs, each    *)
(* holding one fragment of the library below: the shapes of placeholder    *)
(* the source's comments name, and the placeholder forms the claims are    *)
(* about.                                                                  *)
(***************************************************************************)
MaxParas == 2

RC == <<TTextC, TRunC>>
RO == <<TRunO, TRPrO, TRPrC, TTextO>>
ROsp == <<TRunO, TRPrO, TRPrC, TTextSp>>
PlaceholderTok(n) == <<OB, n, CB>>

\* placeholders split across runs: the shapes of lines 22, 28, 34 and 40,
\* and splits in two, three and four fragments
SplitFragments ==
  << <<OB>> \o RC \o <<TProof>> \o RO \o <<"AadharNo">> \o RC \o <<TProof>> \o RO \o <<CB>>,
     <<OB, "A">> \o RC \o <<TProof>> \o RO \o <<"adharNo">> \o RC \o <<TProof>> \o RO \o <<CB>>,
     <<OB>> \o RC \o RO \o <<"Name">> \o RC \o RO \o <<CB>>,
     <<OB, "A">> \o RC \o RO \o <<"adhar">> \o RC \o RO \o <<"No">> \o RC \o RO \o <<CB>>,
     <<OB, "Na">> \o RC \o RO \o <<"me", CB>>,
     <<OB>> \o RC \o RO \o <<"A">> \o RC \o RO \o <<"adhar">> \o RC \o RO \o <<"No", CB>> >>

OtherFragments ==
  << <<"Hello">>,
     PlaceholderTok("Name"),
     <<"Name: ">> \o PlaceholderTok("Name") \o <<", ID: ">> \o PlaceholderTok("CertificateNo"),
     PlaceholderTok("UnknownField"),
     PlaceholderTok("QRCode"),
     <<OB, SP, "QRCode", SP, CB>>,
     PlaceholderTok("Name") \o RC \o <<TTab>> \o RO \o PlaceholderTok("AadharNo"),
     PlaceholderTok("Name") \o RC \o <<TProof>> \o ROsp \o PlaceholderTok("AadharNo")
        \o RC \o <<TProof>> \o ROsp \o PlaceholderTok("CertificateNo"),
     <<QRMarkerText>>,
     <<OB, "Name">>,
     <<"Hello", CB>>,
     <<OB, "QR">> \o RC \o RO \o <<"Code", CB>> >>

Fragments == SplitFragments \o OtherFragments

Paragraph(content) == <<TParaO, TRunO, TTextO>> \o content \o <<TTextC, TRunC, TParaC>>

RECURSIVE Paragraphs(_, _)
Paragraphs(frags, ix) ==
  IF ix = <<>> THEN <<>>
  ELSE Paragraph(frags[Head(ix)]) \o Paragraphs(frags, Tail(ix))

Body(frags, ix) == <<TBodyO>> \o Paragraphs(frags, ix) \o <<TBodyC>>

Choices(n) == UNION {[1..k -> 1..n] : k \in 1..MaxParas}

Bodies == {Body(Fragments, ix) : ix \in Choices(Len(Fragments))}
OneParaBodies == {Body(Fragments, <<i>>) : i \in 1..Len(Fragments)}
\* the bodies in which every placeholder is split across runs
SplitBodies == {Body(SplitFragments, ix) : ix \in Choices(Len(SplitFragments))}

RelsPlain == <<RelsOpen, RelOther, RelsClose>>
RelsWithQr == <<RelsOpen, RelOther, RelQR, RelsClose>>

Archive(doc, hasRels, rels, media) ==
  [isZip |-> TRUE, hasDoc |-> TRUE, doc |-> doc, hasRels |-> hasRels,
   rels |-> rels, media |-> media]

NotAnArchive ==
  [isZip |-> FALSE, hasDoc |-> FALSE, doc |-> <<>>, hasRels |-> FALSE,
   rels |-> <<>>, media |-> {}]
NoBodyPart ==
  [isZip |-> TRUE, hasDoc |-> FALSE, doc |-> <<>>, hasRels |-> TRUE,
   rels |-> RelsPlain, media |-> {}]

\* every body in an archive with the usual manifest; the one-paragraph
\* bodies also in an archive with no manifest and in one that already holds
\* the QR relationship and media file (the output of an earlier render)
\* marker text directly under the paragraph element: the shape the pattern
\* of line 193 matches
BareMarkerBody == <<TBodyO, TParaO, QRMarkerText, TParaC, TBodyC>>

\* the ways a run that holds text opens: with an empty properties element
\* (the only form lines 23-82 spell out), with no properties element, and
\* with a properties element that has a child
RunOpens ==
  {RO, <<TRunO, TTextO>>, <<TRunO, TRPrO, TBold, TRPrC, TTextO>>}

\* a placeholder split by the spell checker: {{ and maybe the first
\* characters of the name, a proofing tag, a run with the rest of the name,
\* a proofing tag, a run with }}
ProofSplit(first, rest, ro) ==
  <<OB>> \o first \o RC \o <<TProof>> \o ro \o rest \o RC \o <<TProof>> \o ro
    \o <<CB>>
NameSplits ==
  {[name |-> "AadharNo", first |-> <<>>, rest |-> <<"AadharNo">>],
   [name |-> "AadharNo", first |-> <<"A">>, rest |-> <<"adharNo">>],
   [name |-> "Name", first |-> <<>>, rest |-> <<"Name">>],
   [name |-> "Name", first |-> <<"Na">>, rest |-> <<"me">>],
   [name |-> "CertificateNo", first |-> <<>>, rest |-> <<"CertificateNo">>]}
ProofSplitCases ==
  {[name |-> n.name,
    doc |-> <<TBodyO>> \o Paragraph(ProofSplit(n.first, n.rest, ro)) \o <<TBodyC>>] :
     n \in NameSplits, ro \in RunOpens}

\* complete placeholders in a row, each in its own run, with one formatting
\* element between the runs
MaxChain == 3
ChainNames == <<"Name", "AadharNo", "CertificateNo">>
ChainName(i) == ChainNames[((i - 1) % Len(ChainNames)) + 1]
Separators ==
  {RC \o <<TTab>> \o RO, RC \o <<TProof>> \o RO, RC \o <<TProof>> \o ROsp,
   RC \o <<TTab, TRunO, TTextO>>}
RECURSIVE Chain(_, _, _)
Chain(i, k, sep) ==
  IF i > k THEN <<>>
  ELSE (IF i = 1 THEN <<>> ELSE sep) \o PlaceholderTok(ChainName(i))
       \o Chain(i + 1, k, sep)
ChainCases ==
  {[k |-> k, sep |-> sep,
    doc |-> <<TBodyO>> \o Paragraph(Chain(1, k, sep)) \o <<TBodyC>>] :
     k \in 2..MaxChain, sep \in Separators}

\* an unclosed {{ in one paragraph, and in the next paragraph text whose
\* last run holds }} alone, or text with }} followed by a placeholder in the
\* next run
UnclosedThenCloser ==
  <<TBodyO>> \o Paragraph(<<OB, "Name">>)
    \o Paragraph(<<"Hello">> \o RC \o <<TProof>> \o RO \o <<"adharNo">> \o RC
                   \o <<TProof>> \o RO \o <<CB>>)
    \o <<TBodyC>>
UnclosedThenPair ==
  <<TBodyO>> \o Paragraph(<<OB, "Name">>)
    \o Paragraph(<<"Hello", CB>> \o RC \o <<TTab>> \o RO \o PlaceholderTok("AadharNo"))
    \o <<TBodyC>>
CrossParagraphBodies == {UnclosedThenCloser, UnclosedThenPair}

\* {{QRCode}} split across three runs in the shape of line 28
SplitQRBody ==
  <<TBodyO>>
    \o Paragraph(<<OB>> \o RC \o RO \o <<"QRCode">> \o RC \o RO \o <<CB>>)
    \o <<TBodyC>>

Templates ==
  {NotAnArchive, NoBodyPart, Archive(BareMarkerBody, TRUE, RelsPlain, {}),
   Archive(SplitQRBody, TRUE, RelsPlain, {})}
  \cup {Archive(c.doc, TRUE, RelsPlain, {}) : c \in ProofSplitCases}
  \cup {Archive(c.doc, TRUE, RelsPlain, {}) : c \in ChainCases}
  \cup {Archive(b, TRUE, RelsPlain, {}) : b \in CrossParagraphBodies}
  \cup {Archive(b, TRUE, RelsPlain, {}) : b \in Bodies}
  \cup {Archive(b, FALSE, <<>>, {}) : b \in OneParaBodies}
  \cup {Archive(b, TRUE, RelsWithQr, {MediaPath}) : b \in OneParaBodies}

DataFull ==
  [Name |-> "Asha Rao", CertificateNo |-> "CERT042", AadharNo |-> "1234-5678-9012"]
DataPartial == [Name |-> "R&D", QRCode |-> "QR-TEXT"]
DataSets == {DataFull, DataPartial}

\* undefined and '' behave alike at lines 107 and 130
NoQr == ""
QrInputs == {NoQr, QrPng}

(***************************************************************************)
(* One call of renderDocxTemplate, step by step.                           *)
(***************************************************************************)
VARIABLES
  template,        \* RenderContext.templateArrayBuffer, as the archive it holds
  data,            \* RenderContext.data
  qrCodeDataUrl,   \* RenderContext.qrCodeDataUrl
  pc,              \* position in renderDocxTemplate
  zip,             \* the PizZip instance of the call
  err,             \* the exception thrown, "" while none
  out              \* <<>> or <<the archive of the returned Blob>>

\* two render calls that share one template buffer
VARIABLES
  buffer,          \* the ArrayBuffer both calls are given
  calls            \* per call: its data, qrCodeDataUrl, position, zip, error, result

\* the Generate page: one run of handleStartGeneration
VARIABLES
  selectedDs,      \* the dataset record chosen on the page
  selectedTp,      \* the template record chosen on the page
  includeQRCode,   \* the page's QR switch
  gpc,             \* position in handleStartGeneration
  job,             \* the generation_jobs record in the datastore
  rowIx,           \* rows of selectedDs.data already handled
  certificates,    \* the local array certificates
  certificateStore,\* the certificates table in the datastore
  rendered,        \* history: per handled row, whether its file was produced
  fetches          \* history: the calls of fetch(selectedTp.file_url)

\* the Upload page
VARIABLES
  uploadedFile,    \* state uploadedFile: <<>> for null, else <<the file>>
  previewData,     \* state previewData
  validation,      \* state validation: <<>> for null, else <<the result>>
  datasets         \* the datasets table in the datastore

\* the Template Mapping page
VARIABLES
  templateFile,    \* state templateFile: <<>> for null, else <<the file>>
  placeholders,    \* state placeholders
  mappingComplete, \* state mappingComplete
  templates        \* the templates table in the datastore

\* the Generate page: the Start button and the invocations it starts
VARIABLES
  currentJob,      \* state currentJob: <<>> for null, else <<the local job>>
  jobStore,        \* the generation_jobs table in the datastore
  starts           \* per invocation of handleStartGeneration: position, job id

renderVars == <<template, data, qrCodeDataUrl, pc, zip, err, out>>
concVars == <<buffer, calls>>
batchVars ==
  <<selectedDs, selectedTp, includeQRCode, gpc, job, rowIx, certificates,
    certificateStore, rendered, fetches>>
uploadVars == <<uploadedFile, previewData, validation, datasets>>
mappingVars ==
  <<templateFile, placeholders, mappingComplete, templates>>

startVars == <<currentJob, jobStore, starts>>

vars == <<renderVars, concVars, batchVars, uploadVars, mappingVars, startVars>>

\* the parts of the state a specification does not use stay at these values
NoFile == "null"
RenderIdle ==
  /\ template = NoFile /\ data = <<>> /\ qrCodeDataUrl = "" /\ pc = "idle"
  /\ zip = <<>> /\ err = "" /\ out = <<>>
ConcIdle == buffer = NoFile /\ calls = <<>>
BatchIdle ==
  /\ selectedDs = NoFile /\ selectedTp = NoFile /\ includeQRCode = FALSE
  /\ gpc = "idle" /\ job = <<>> /\ rowIx = 0 /\ certificates = <<>>
  /\ certificateStore = <<>> /\ rendered = <<>> /\ fetches = 0
UploadIdle ==
  /\ uploadedFile = <<>> /\ previewData = <<>> /\ validation = <<>>
  /\ datasets = <<>>
MappingIdle ==
  /\ templateFile = <<>> /\ placeholders = <<>> /\ mappingComplete = FALSE
  /\ templates = <<>>

StartIdle == currentJob = <<>> /\ jobStore = <<>> /\ starts = <<>>

NoZip == [hasDoc |-> FALSE, doc |-> <<>>, hasRels |-> FALSE, rels |-> <<>>, media |-> {}]

Init ==
  /\ template \in Templates
  /\ data \in DataSets
  /\ qrCodeDataUrl \in QrInputs
  /\ pc = "start"
  /\ zip = NoZip
  /\ err = ""
  /\ out = <<>>
  /\ ConcIdle /\ BatchIdle /\ UploadIdle /\ MappingIdle /\ StartIdle

\* mutant: a buffer that is no archive is taken as an empty one
OpenArchiveMutNoThrow ==
  /\ pc = "start"
  /\ zip' = [hasDoc |-> template.hasDoc, doc |-> template.doc,
             hasRels |-> template.hasRels, rels |-> template.rels,
             media |-> template.media]
  /\ pc' = "repair"
  /\ UNCHANGED <<template, data, qrCodeDataUrl, err, out>>
  /\ UNCHANGED <<concVars, batchVars, uploadVars, mappingVars, startVars>>

\* line 14: new PizZip(templateArrayBuffer)
OpenArchive ==
  /\ pc = "start"
  /\ IF template.isZip
     THEN /\ zip' = [hasDoc |-> template.hasDoc, doc |-> template.doc,
                     hasRels |-> template.hasRels, rels |-> template.rels,
                     media |-> template.media]
          /\ pc' = "repair"
          /\ err' = err
     ELSE /\ pc' = "threw"
          /\ err' = "Error"
          /\ zip' = zip
  /\ UNCHANGED <<template, data, qrCodeDataUrl, out>>
  /\ UNCHANGED <<concVars, batchVars, uploadVars, mappingVars, startVars>>

\* lines 17-87
RepairPlaceholders ==
  /\ pc = "repair"
  /\ zip' = IF zip.hasDoc THEN [zip EXCEPT !.doc = Repair(@)] ELSE zip
  /\ pc' = "mark"
  /\ UNCHANGED <<template, data, qrCodeDataUrl, err, out>>
  /\ UNCHANGED <<concVars, batchVars, uploadVars, mappingVars, startVars>>

\* mutant: lines 89-96 are missing
ReplaceQRPlaceholderMutSkip ==
  /\ pc = "mark"
  /\ pc' = "render"
  /\ UNCHANGED <<template, data, qrCodeDataUrl, zip, err, out>>
  /\ UNCHANGED <<concVars, batchVars, uploadVars, mappingVars, startVars>>

\* lines 89-96
ReplaceQRPlaceholder ==
  /\ pc = "mark"
  /\ zip' = IF zip.hasDoc THEN [zip EXCEPT !.doc = MarkQRCode(@)] ELSE zip
  /\ pc' = "render"
  /\ UNCHANGED <<template, data, qrCodeDataUrl, err, out>>
  /\ UNCHANGED <<concVars, batchVars, uploadVars, mappingVars, startVars>>

\* lines 98-127: the engine is built and run; with no body part the
\* constructor rejects the archive or line 114 dereferences null
RenderTemplate ==
  /\ pc = "render"
  /\ IF ~zip.hasDoc
     THEN /\ pc' = "threw"
          /\ err' \in {"XTInternalError", "TypeError"}
          /\ zip' = zip
     ELSE LET r == EngineRender(zip.doc, Enriched(data, qrCodeDataUrl))
          IN IF r.ok
             THEN /\ zip' = [zip EXCEPT !.doc = r.xml]
                  /\ pc' = "inject"
                  /\ err' = err
             ELSE /\ pc' = "threw"
                  /\ err' = "XTTemplateError"
                  /\ zip' = zip
  /\ UNCHANGED <<template, data, qrCodeDataUrl, out>>
  /\ UNCHANGED <<concVars, batchVars, uploadVars, mappingVars, startVars>>

\* mutant: line 136 (the media asset) is missing
InjectedZipMutNoMedia(z, qr) ==
  IF ~(qr # "" /\ IsDataImage(qr)) THEN z
  ELSE IF ~z.hasRels THEN z
       ELSE [z EXCEPT !.rels = AddRelationship(@), !.doc = InjectIntoBody(@)]

\* mutant: the guard of line 130 is missing
InjectedZipMutNoGuard(z, qr) ==
  LET withMedia == [z EXCEPT !.media = @ \cup {MediaPath}]
  IN IF ~withMedia.hasRels THEN withMedia
     ELSE [withMedia EXCEPT !.rels = AddRelationship(@),
                            !.doc = InjectIntoBody(@)]

\* lines 130-254
InjectedZip(z, qr) ==
  IF ~(qr # "" /\ IsDataImage(qr)) THEN z
  ELSE LET withMedia == [z EXCEPT !.media = @ \cup {MediaPath}]
       IN IF ~withMedia.hasRels THEN withMedia
          ELSE [withMedia EXCEPT !.rels = AddRelationship(@),
                                 !.doc = InjectIntoBody(@)]

InjectQRCode ==
  /\ pc = "inject"
  /\ zip' = InjectedZip(zip, qrCodeDataUrl)
  /\ pc' = "generate"
  /\ UNCHANGED <<template, data, qrCodeDataUrl, err, out>>
  /\ UNCHANGED <<concVars, batchVars, uploadVars, mappingVars, startVars>>

\* lines 256-258
GenerateBlob ==
  /\ pc = "generate"
  /\ out' = <<zip>>
  /\ pc' = "done"
  /\ UNCHANGED <<template, data, qrCodeDataUrl, zip, err>>
  /\ UNCHANGED <<concVars, batchVars, uploadVars, mappingVars, startVars>>

\* CertificateGenerator.generatePDFFromTemplate: the catch block rethrows
\* new Error('Template processing failed: ...')
RethrowToCaller ==
  /\ pc = "threw"
  /\ pc' = "rejected"
  /\ err' = "Error"
  /\ UNCHANGED <<template, data, qrCodeDataUrl, zip, out>>
  /\ UNCHANGED <<concVars, batchVars, uploadVars, mappingVars, startVars>>

Next ==
  \/ OpenArchive
  \/ RepairPlaceholders
  \/ ReplaceQRPlaceholder
  \/ RenderTemplate
  \/ InjectQRCode
  \/ GenerateBlob
  \/ RethrowToCaller

Spec == Init /\ [][Next]_vars

(***************************************************************************)
(* Properties.                                                             *)
(***************************************************************************)
Returned == pc = "done"
OutDoc == out[1].doc
HasText(xml, v) ==
  \E i \in 1..Len(xml) : xml[i] \notin Tags /\ XmlUnescape(xml[i]) = v
Substituted(n) ==
  ContainsSeq(template.doc, PlaceholderTok(n))
    => HasText(OutDoc, data[n]) /\ ~ContainsSeq(OutDoc, PlaceholderTok(n))
ConcreteBody == Body(OtherFragments, <<3>>)
\* the template has a {{QRCode}} placeholder the extractor sees
HasQRPlaceholder(xml) == "QRCode" \in ExtractPlaceholders(xml)
NewMedia == out[1].media \ template.media
NewRelationships ==
  {i \in 1..Len(out[1].rels) : ~ContainsTok(template.rels, out[1].rels[i])}

\* C1 as stated: every mapped name n whose token {{n}} is in the body is
\* replaced by its value in the returned document.
C1_AnyNameSubstituted ==
  Returned => \A n \in DOMAIN data : Substituted(n)

\* C1, amended: in every returned document each mapped name n other than
\* the reserved QRCode whose contiguous token {{n}} is in the template body
\* has its value in the body text and its token gone; the unsplit body
\* 'Name: {{Name}}, ID: {{CertificateNo}}' renders as 'Name: Asha Rao, ID:
\* CERT042'.
C1_MappedNameSubstituted ==
  Returned =>
    /\ \A n \in (DOMAIN data) \ {"QRCode"} : Substituted(n)
    /\ (template.doc = ConcreteBody /\ data = DataFull /\ qrCodeDataUrl = NoQr)
         => TextOf(OutDoc) = <<"Name: ", "Asha Rao", ", ID: ", "CERT042">>

C1_Witness ==
  /\ Returned
  /\ data = DataPartial
  /\ ContainsSeq(template.doc, PlaceholderTok("Name"))
  /\ HasText(OutDoc, "R&D")

\* C2 as stated: a placeholder whose name is not a key of the data stays in
\* the returned body as the literal text {{UnknownField}}.
C2_UnmappedKeptLiteral ==
  (Returned /\ ContainsSeq(template.doc, PlaceholderTok("UnknownField"))
     /\ "UnknownField" \notin DOMAIN data)
    => ContainsSeq(OutDoc, PlaceholderTok("UnknownField"))

C4_AnchoredWhenNoPlaceholder ==
  (Returned /\ qrCodeDataUrl = QrPng /\ ~HasQRPlaceholder(template.doc)
     /\ ~ContainsTok(template.doc, "QR"))
    => /\ ContainsSeq(OutDoc, AnchorXml \o <<TBodyC>>)
       /\ (~ContainsTok(template.doc, OB) => TextOf(OutDoc) = TextOf(template.doc))

\* C5 as stated: no returned body contains the marker [[QR_INLINE_IMG]].
C5_MarkerNeverReturned ==
  Returned => ~ContainsSeq(OutDoc, Marker)

\* C6 as stated: an input that is no archive, or has no body part, fails
\* with a TemplateRenderError and returns nothing.
C6_TemplateRenderError ==
  (~template.isZip \/ ~template.hasDoc)
    => /\ out = <<>>
       /\ pc \in {"threw", "rejected"} => err = "TemplateRenderError"

\* C6, amended: an input that is no archive fails at the archive constructor
\* with a plain Error; an archive with no body part fails before rendering
\* with the engine's error or a TypeError; the caller gets a plain Error;
\* in both cases nothing is returned.
C6_FailsWithoutOutput ==
  /\ ~template.isZip
       => /\ pc \in {"start", "threw", "rejected"}
          /\ pc = "threw" => err = "Error"
  /\ (template.isZip /\ ~template.hasDoc)
       => /\ pc \in {"start", "repair", "mark", "render", "threw", "rejected"}
          /\ pc = "threw" => err \in {"XTInternalError", "TypeError"}
  /\ (~template.isZip \/ ~template.hasDoc)
       => /\ out = <<>>
          /\ pc = "rejected" => err = "Error"

C6_Witness == pc = "rejected" /\ template.isZip /\ ~template.hasDoc

\* C7 as stated: the repair rewrites applied to their own output change
\* nothing.
C7_RepairIdempotent ==
  (pc = "mark" /\ zip.hasDoc) => Repair(zip.doc) = zip.doc

\* C8 as stated: when every placeholder of the raw body is split across
\* runs, the extractor on the repaired body gives exactly the names the
\* body's text holds.
C8_ExtractAfterRepair ==
  (pc = "mark" /\ template.doc \in SplitBodies)
    => ExtractPlaceholders(zip.doc) = ExtractPlaceholders(TextOf(template.doc))

C10_PassThrough ==
  (Returned /\ qrCodeDataUrl = NoQr /\ ~ContainsTok(template.doc, OB))
    => OutDoc = template.doc

C10_Witness ==
  /\ Returned
  /\ qrCodeDataUrl = NoQr
  /\ ~ContainsTok(template.doc, OB)
  /\ ContainsTok(template.doc, QRMarkerText)
  /\ OutDoc = template.doc

(***************************************************************************)
(* Element structure of a body: which elements are open at a position.     *)
(***************************************************************************)
OpenTags ==
  {TBodyO, TParaO, TRunO, TRPrO, TTextO, TTextSp, TDrawO, TInlineO, TAnchorO}
CloseTags ==
  {TBodyC, TParaC, TRunC, TRPrC, TTextC, TDrawC, TInlineC, TAnchorC}
Closer(t) ==
  CASE t = TBodyO -> TBodyC
    [] t = TParaO -> TParaC
    [] t = TRunO -> TRunC
    [] t = TRPrO -> TRPrC
    [] t \in {TTextO, TTextSp} -> TTextC
    [] t = TDrawO -> TDrawC
    [] t = TInlineO -> TInlineC
    [] t = TAnchorO -> TAnchorC
    [] OTHER -> ""
Malformed == <<"!">>

\* the elements open after xml[1..k], innermost last; Malformed once a
\* closing tag does not close the innermost open element
RECURSIVE OpenAfter(_, _)
OpenAfter(xml, k) ==
  IF k = 0 THEN <<>>
  ELSE LET st == OpenAfter(xml, k - 1)
           t == xml[k]
       IN IF st = Malformed THEN Malformed
          ELSE IF t \in OpenTags THEN Append(st, t)
          ELSE IF t \in CloseTags
               THEN IF st # <<>> /\ Closer(st[Len(st)]) = t
                    THEN SubSeq(st, 1, Len(st) - 1)
                    ELSE Malformed
               ELSE st

WellNested(xml) == OpenAfter(xml, Len(xml)) = <<>>
\* the positions where a run that holds a drawing starts
DrawingRuns(xml) ==
  {i \in 1..(Len(xml) - 1) : xml[i] = TRunO /\ xml[i + 1] = TDrawO}
ParentOf(xml, i) ==
  LET st == OpenAfter(xml, i - 1)
  IN IF st = <<>> \/ st = Malformed THEN "" ELSE st[Len(st)]

\* C11 as stated: the returned body of a properly nested template is
\* properly nested, and every run that holds an inserted drawing is a child
\* of a paragraph, not of a text element or of another run.
C11_StructurallyValid ==
  (Returned /\ WellNested(template.doc))
    => /\ WellNested(OutDoc)
       /\ \A i \in DrawingRuns(OutDoc) : ParentOf(OutDoc, i) = TParaO

(***************************************************************************)
(* One call as a function of its inputs: the statements of                 *)
(* renderDocxTemplate in program order.  <<>> when the call throws.        *)
(***************************************************************************)
OpenedZip(t) ==
  [hasDoc |-> t.hasDoc, doc |-> t.doc, hasRels |-> t.hasRels, rels |-> t.rels,
   media |-> t.media]

RenderAlone(t, d, qr) ==
  IF ~t.isZip \/ ~t.hasDoc THEN <<>>
  ELSE LET r == EngineRender(MarkQRCode(Repair(t.doc)), Enriched(d, qr))
       IN IF ~r.ok THEN <<>>
          ELSE <<InjectedZip([OpenedZip(t) EXCEPT !.doc = r.xml], qr)>>

(***************************************************************************)
(* Several calls of renderDocxTemplate on one template buffer, their       *)
(* statements interleaved in every order.  Each call has its own zip       *)
(* (line 14 decompresses the buffer into a new PizZip), its own enriched   *)
(* object (line 105) and its own result.                                   *)
(***************************************************************************)
NumCalls == 2
CallIds == 1..NumCalls

\* {{Name}}, {{QRCode}}, the chain of three placeholders, an unclosed tag
ConcTemplates ==
  {NotAnArchive}
  \cup {Archive(Body(OtherFragments, <<i>>), TRUE, RelsPlain, {}) : i \in {2, 5, 8, 10}}

NewCall(d, qr) ==
  [data |-> d, qr |-> qr, pc |-> "start", zip |-> NoZip, err |-> "", out |-> <<>>]

InitConcurrent ==
  /\ buffer \in ConcTemplates
  /\ calls \in [CallIds -> {NewCall(d, qr) : d \in DataSets, qr \in QrInputs}]
  /\ RenderIdle /\ BatchIdle /\ UploadIdle /\ MappingIdle /\ StartIdle

\* the call records one statement group of renderDocxTemplate leads to
StepsOf(buf, r) ==
  CASE r.pc = "start" ->
         IF buf.isZip
         THEN {[r EXCEPT !.zip = OpenedZip(buf), !.pc = "repair"]}
         ELSE {[r EXCEPT !.pc = "threw", !.err = "Error"]}
    [] r.pc = "repair" ->
         {[r EXCEPT !.zip = IF @.hasDoc THEN [@ EXCEPT !.doc = Repair(@)] ELSE @,
                    !.pc = "mark"]}
    [] r.pc = "mark" ->
         {[r EXCEPT !.zip = IF @.hasDoc THEN [@ EXCEPT !.doc = MarkQRCode(@)] ELSE @,
                    !.pc = "render"]}
    [] r.pc = "render" ->
         IF ~r.zip.hasDoc
         THEN {[r EXCEPT !.pc = "threw", !.err = e] : e \in {"XTInternalError", "TypeError"}}
         ELSE LET e == EngineRender(r.zip.doc, Enriched(r.data, r.qr))
              IN IF e.ok
                 THEN {[r EXCEPT !.zip = [@ EXCEPT !.doc = e.xml], !.pc = "inject"]}
                 ELSE {[r EXCEPT !.pc = "threw", !.err = "XTTemplateError"]}
    [] r.pc = "inject" ->
         {[r EXCEPT !.zip = InjectedZip(@, r.qr), !.pc = "generate"]}
    [] r.pc = "generate" ->
         {[r EXCEPT !.out = <<r.zip>>, !.pc = "done"]}
    [] OTHER -> {}

\* mutant: one archive object is kept between calls; a call that starts
\* while another call's archive is open works on that archive
CallStepMutSharedZip(c) ==
  \E n \in StepsOf(buffer, calls[c]) :
    /\ calls' =
         [calls EXCEPT ![c] =
            IF calls[c].pc = "start" /\ n.pc = "repair"
               /\ \E o \in CallIds \ {c} : calls[o].zip # NoZip
            THEN [n EXCEPT !.zip =
                    calls[CHOOSE o \in CallIds \ {c} : calls[o].zip # NoZip].zip]
            ELSE n]
    /\ UNCHANGED <<buffer, renderVars, batchVars, uploadVars, mappingVars, startVars>>

CallStep(c) ==
  \E n \in StepsOf(buffer, calls[c]) :
    /\ calls' = [calls EXCEPT ![c] = n]
    /\ UNCHANGED <<buffer, renderVars, batchVars, uploadVars, mappingVars, startVars>>

NextConcurrent == \E c \in CallIds : CallStep(c)

SpecConcurrent == InitConcurrent /\ [][NextConcurrent]_vars

\* C12: whatever the interleaving, a call that has ended returned what the
\* same call returns alone (nothing when it throws), and no step changes
\* the shared template buffer or a call's data.
C12_CallsIsolated ==
  /\ [](\A c \in CallIds :
          calls[c].pc \in {"done", "threw"}
            => calls[c].out = RenderAlone(buffer, calls[c].data, calls[c].qr))
  /\ [][/\ buffer' = buffer
        /\ \A c \in CallIds : calls'[c].data = calls[c].data]_vars

C12_Witness ==
  /\ calls[1].pc = "inject"
  /\ calls[2].pc = "done"
  /\ calls[1].data # calls[2].data
  /\ ContainsSeq(buffer.doc, PlaceholderTok("Name"))
  /\ HasText(calls[2].out[1].doc, "R&D")

(***************************************************************************)
(* The Generate page: handleStartGeneration.  The datastore calls          *)
(* (generationJobService, certificateService, historyService) are taken to *)
(* succeed; the fetch of the template may fail for any row.                *)
(***************************************************************************)
MaxRows == 2

RowAsha ==
  [Name |-> "Asha Rao", CertificateNo |-> "CERT042", AadharNo |-> "1234-5678-9012"]
RowRD == [Name |-> "R&D"]
Rows == {RowAsha, RowRD}

\* a dataset record as handleConfirmUpload saves it: total_rows is the
\* number of rows of data
DatasetOf(rows) == [data |-> rows, total_rows |-> Len(rows)]
GenDatasets == {DatasetOf(rows) : rows \in UNION {[1..n -> Rows] : n \in 1..MaxRows}}

\* template records: one saved without file_url, and files that render
\* ('Name: {{Name}}, ID: {{CertificateNo}}'), that make the engine throw
\* (an unclosed tag) and that are no archive
\* TemplateMapping.tsx line 185: the mappings saved with a template, each
\* placeholder to the sheet column chosen for it: the column of the same
\* name, or for the ID the Aadhaar number
MappedAsNamed == [Name |-> "Name", CertificateNo |-> "CertificateNo"]
MappedAcross == [Name |-> "Name", CertificateNo |-> "AadharNo"]
SavedTemplate(hasUrl, file, mappings) ==
  [file_url |-> hasUrl, file |-> file, mappings |-> mappings]
TemplateRecord(hasUrl, file) == SavedTemplate(hasUrl, file, MappedAsNamed)
GenTemplates ==
  {TemplateRecord(FALSE, NotAnArchive), TemplateRecord(TRUE, NotAnArchive)}
  \cup {TemplateRecord(TRUE, Archive(Body(OtherFragments, <<i>>), TRUE, RelsPlain, {})) :
          i \in {3, 10}}
  \cup {SavedTemplate(TRUE, Archive(Body(OtherFragments, <<3>>), TRUE, RelsPlain, {}),
                      MappedAcross)}

\* row.X || ''
Field(row, col) == IF col \in DOMAIN row THEN row[col] ELSE ""

\* lines 629-646: the key of mappedData and the sheet column it is read from
MappedColumns ==
  [Name |-> "Name", DOB |-> "DOB", CertificateNo |-> "CertificateNo",
   IssueDate |-> "Date of Issue", Grade |-> "Grade", AadharNo |-> "AadharNo",
   EnrollmentNo |-> "Enrollment", SonOrDaughterOf |-> "SonOrDaughterOf",
   JobRole |-> "job role", Duration |-> "Duration",
   TrainingCenter |-> "Training Centre", District |-> "District",
   State |-> "State", AssessmentPartner |-> "Assessment Partner",
   IssuePlace |-> "Place of Issue"]
\* new Date().toISOString().split('T')[0]
Today == "2025-01-01"
MappedData(row, qrData) ==
  [k \in DOMAIN MappedColumns \cup {"QRCode"} |->
     IF k = "QRCode" THEN qrData
     ELSE IF k = "IssueDate" /\ Field(row, MappedColumns[k]) = "" THEN Today
     ELSE Field(row, MappedColumns[k])]

\* lines 562-578: the QR text of a row; line 663: its image
QrDataOf(include) == IF include THEN "QR-TEXT" ELSE ""
QrImageOf(qrData) == IF qrData # "" THEN QrPng ELSE NoQr

\* lines 617-669: what the try block of one row ends in
RowOutcome(tp, row, include, fetchOk) ==
  IF ~tp.file_url \/ ~fetchOk THEN "nofile"
  ELSE IF RenderAlone(tp.file, MappedData(row, QrDataOf(include)),
                      QrImageOf(QrDataOf(include))) = <<>>
       THEN "threw"
       ELSE "ok"

InitBatch ==
  /\ selectedDs \in GenDatasets
  /\ selectedTp \in GenTemplates
  /\ includeQRCode \in BOOLEAN
  /\ gpc = "start"
  /\ job = <<>>
  /\ rowIx = 0
  /\ certificates = <<>>
  /\ certificateStore = <<>>
  /\ rendered = <<>>
  /\ fetches = 0
  /\ RenderIdle /\ ConcIdle /\ UploadIdle /\ MappingIdle /\ StartIdle

\* lines 461-486: generationJobService.create(jobData)
CreateJob ==
  /\ gpc = "start"
  /\ job' = [status |-> "running", progress |-> 0, current_row |-> 0,
             total_certificates |-> selectedDs.total_rows,
             successful_certificates |-> 0, failed_certificates |-> 0]
  /\ gpc' = "simulate"
  /\ UNCHANGED <<selectedDs, selectedTp, includeQRCode, rowIx, certificates,
                 certificateStore, rendered, fetches>>
  /\ UNCHANGED <<renderVars, concVars, uploadVars, mappingVars, startVars>>

\* Math.round((i / total) * 100)
ProgressOf(i, total) == (200 * i + total) \div (2 * total)

\* lines 489-507: one turn of the progress loop, or its end
SimulateProgress ==
  /\ gpc = "simulate"
  /\ IF job.current_row < selectedDs.total_rows
     THEN /\ job' = [job EXCEPT !.current_row = @ + 1,
                                !.progress = ProgressOf(job.current_row + 1,
                                                        selectedDs.total_rows)]
          /\ gpc' = gpc
     ELSE /\ job' = job
          /\ gpc' = "rows"
  /\ UNCHANGED <<selectedDs, selectedTp, includeQRCode, rowIx, certificates,
                 certificateStore, rendered, fetches>>
  /\ UNCHANGED <<renderVars, concVars, uploadVars, mappingVars, startVars>>

\* lines 666-692: the record pushed for a row, whatever the try block did
CertificateOf(row, outcome) ==
  [participant_name |-> Field(row, "Name"),
   certificate_no |-> Field(row, "CertificateNo"),
   file_size |-> IF outcome = "ok" THEN "pdfBlob.size" ELSE "random",
   status |-> "ready"]

\* lines 537-693: one turn of the loop over selectedDs.data
GenerateRow ==
  /\ gpc = "rows"
  /\ rowIx < Len(selectedDs.data)
  /\ \E fetchOk \in BOOLEAN :
       LET row == selectedDs.data[rowIx + 1]
           outcome == RowOutcome(selectedTp, row, includeQRCode, fetchOk)
       IN /\ certificates' = Append(certificates, CertificateOf(row, outcome))
          /\ rendered' = Append(rendered, outcome)
  /\ rowIx' = rowIx + 1
  \* line 622: fetch(selectedTp.file_url), reached when line 618 does not throw
  /\ fetches' = IF selectedTp.file_url THEN fetches + 1 ELSE fetches
  /\ UNCHANGED <<selectedDs, selectedTp, includeQRCode, gpc, job, certificateStore>>
  /\ UNCHANGED <<renderVars, concVars, uploadVars, mappingVars, startVars>>

\* line 696: certificateService.createBatch(certificates)
SaveCertificates ==
  /\ gpc = "rows"
  /\ rowIx = Len(selectedDs.data)
  /\ certificateStore' = certificateStore \o certificates
  /\ gpc' = "complete"
  /\ UNCHANGED <<selectedDs, selectedTp, includeQRCode, job, rowIx, certificates,
                 rendered, fetches>>
  /\ UNCHANGED <<renderVars, concVars, uploadVars, mappingVars, startVars>>

\* lines 699-704: generationJobService.update(job.id, ...)
CompleteJob ==
  /\ gpc = "complete"
  /\ job' = [job EXCEPT !.status = "completed", !.progress = 100,
                        !.successful_certificates = Len(certificates)]
  /\ gpc' = "done"
  /\ UNCHANGED <<selectedDs, selectedTp, includeQRCode, rowIx, certificates,
                 certificateStore, rendered, fetches>>
  /\ UNCHANGED <<renderVars, concVars, uploadVars, mappingVars, startVars>>

NextBatch ==
  \/ CreateJob
  \/ SimulateProgress
  \/ GenerateRow
  \/ SaveCertificates
  \/ CompleteJob

SpecBatch == InitBatch /\ [][NextBatch]_vars

CountOf(seq, v) == Cardinality({i \in 1..Len(seq) : seq[i] = v})

\* C13 as stated: when the job has finished, successful_certificates is the
\* number of rows whose render succeeded, failed_certificates the number of
\* rows whose render failed, and they add up to the rows processed.
C13_CountsReported ==
  gpc = "done"
    => /\ job.successful_certificates = CountOf(rendered, "ok")
       /\ job.failed_certificates = Len(rendered) - CountOf(rendered, "ok")
       /\ job.successful_certificates + job.failed_certificates = Len(rendered)

\* C14 as stated: when the renderer throws for a row, the later rows are
\* still handled, the job ends completed, and the row is stored as failed,
\* not as a ready certificate.
C14_FailedRowReported ==
  gpc = "done"
    => /\ Len(rendered) = Len(selectedDs.data)
       /\ job.status = "completed"
       /\ \A k \in 1..Len(rendered) :
            rendered[k] = "threw" => certificateStore[k].status # "ready"

(***************************************************************************)
(* The Template Mapping page.  Each handler is one step; the datastore and *)
(* storage calls of handleSaveMapping are taken to succeed.                *)
(***************************************************************************)
MaxSaved == 1

\* lines 26-47
DatasetColumns ==
  <<"Name", "AadharNo", "DOB", "CertificateNo", "Grade", "RegistrationNo",
    "Level", "CandidateId", "IssueDate", "EnrollmentNo", "SonOrDaughterOf",
    "JobRole", "Duration", "TrainingCenter", "District", "State",
    "AssessmentPartner", "IssuePlace", "QRCode">>
\* lines 50-71
StandardPlaceholders ==
  <<"Name", "DOB", "CertificateNo", "RegistrationNo", "Level", "CandidateId",
    "IssueDate", "Grade", "AadharNo", "EnrollmentNo", "SonOrDaughterOf",
    "JobRole", "Duration", "TrainingCenter", "District", "State",
    "AssessmentPartner", "IssuePlace", "QRCode">>

NoColumn == "null"

RangeOf(seq) == {seq[i] : i \in 1..Len(seq)}

\* the regex.exec loop of lines 86-90 with names.add: the names in the
\* order of their first match (the order of a Set is insertion order)
RECURSIVE DetectFrom(_, _, _)
DetectFrom(s, i, names) ==
  IF i > Len(s) THEN names
  ELSE LET m == MatchFrom(PatPlaceholder, 1, s, i, NoCaps)
       IN IF m # <<>>
          THEN LET n == Concat(m[1].caps[1])
               IN DetectFrom(s, m[1].end,
                             IF n \in RangeOf(names) THEN names ELSE Append(names, n))
          ELSE DetectFrom(s, i + 1, names)

\* mutant: the scan stops at the first match
DetectedNamesMutFirstOnly(xml) ==
  LET all == DetectFrom(xml, 1, <<>>)
  IN IF all = <<>> THEN <<>> ELSE <<all[1]>>

\* lines 84-93: Array.from(names)
DetectedNames(xml) == DetectFrom(xml, 1, <<>>)

\* mutant: the two lists are concatenated without the Set
UnionWithStandardMutConcat(detected) == detected \o StandardPlaceholders

\* line 94: Array.from(new Set([...detected, ...standardPlaceholders]))
UnionWithStandard(detected) ==
  detected \o SelectSeq(StandardPlaceholders, LAMBDA n : n \notin RangeOf(detected))

\* line 95
NewPlaceholders(names) ==
  [i \in 1..Len(names) |-> [name |-> names[i], mappedColumn |-> NoColumn]]

NamesOf(phs) == [i \in 1..Len(phs) |-> phs[i].name]

\* String.prototype.toLowerCase on the names and columns of the model: Name
\* and name are the only two that differ in case alone
ToLowerCase(n) == IF n = "Name" THEN "name" ELSE n

\* the files offered to the page: the one-paragraph templates of the render
\* model, a body that holds {{Name}} twice, a body that holds {{Name}} and
\* {{UnknownField}}, and a body whose placeholder differs from a standard
\* one in case alone
LowerCaseBody == Body(<<PlaceholderTok("name")>>, <<1>>)
\* bodies with no token, one token, two tokens, one token twice, a token
\* with inner spaces, an unclosed token, a token split across runs, and two
\* names that differ in case only
MappingBodies ==
  {Body(OtherFragments, <<i>>) : i \in {1, 3, 6, 10}}
  \cup {Body(SplitFragments, <<3>>), Body(OtherFragments, <<2, 2>>),
        Body(OtherFragments, <<4, 2>>), LowerCaseBody}
MappingFiles ==
  {NotAnArchive, NoBodyPart}
  \cup {Archive(b, TRUE, RelsPlain, {}) : b \in MappingBodies}

\* the placeholders and columns handleColumnMapping is called with
MapNames == {"UnknownField"}
MapColumns == {"Grade"}

InitMapping ==
  /\ templateFile = <<>>
  /\ placeholders = <<>>
  /\ mappingComplete = FALSE
  /\ templates = <<>>
  /\ RenderIdle /\ ConcIdle /\ BatchIdle /\ UploadIdle /\ StartIdle

\* lines 73-112: JSZip.loadAsync rejects a file that is no archive, and the
\* catch block leaves placeholders as it was
HandleTemplateUpload(f) ==
  /\ templateFile' = <<f>>
  /\ placeholders' =
       IF ~f.isZip THEN placeholders
       ELSE NewPlaceholders(UnionWithStandard(
              IF f.hasDoc THEN DetectedNames(f.doc) ELSE <<>>))
  /\ UNCHANGED <<mappingComplete, templates>>
  /\ UNCHANGED <<renderVars, concVars, batchVars, uploadVars, startVars>>

\* lines 114-122
HandleColumnMapping(placeholderName, columnName) ==
  /\ placeholders' =
       [i \in 1..Len(placeholders) |->
          IF placeholders[i].name = placeholderName
          THEN [placeholders[i] EXCEPT !.mappedColumn = columnName]
          ELSE placeholders[i]]
  /\ UNCHANGED <<templateFile, mappingComplete, templates>>
  /\ UNCHANGED <<renderVars, concVars, batchVars, uploadVars, startVars>>

\* datasetColumns.find(col => col.toLowerCase() === name.toLowerCase())
FindColumn(name) ==
  LET hits == SelectSeq(DatasetColumns, LAMBDA col : ToLowerCase(col) = ToLowerCase(name))
  IN IF hits = <<>> THEN NoColumn ELSE hits[1]

\* lines 124-138; the button is rendered when placeholders is not empty
HandleAutoMap ==
  /\ placeholders # <<>>
  /\ placeholders' =
       [i \in 1..Len(placeholders) |->
          [placeholders[i] EXCEPT !.mappedColumn =
             IF FindColumn(placeholders[i].name) # NoColumn
             THEN FindColumn(placeholders[i].name)
             ELSE @]]
  /\ UNCHANGED <<templateFile, mappingComplete, templates>>
  /\ UNCHANGED <<renderVars, concVars, batchVars, uploadVars, startVars>>

\* lines 353-360: the Reset button
ResetMapping ==
  /\ placeholders # <<>>
  /\ templateFile' = <<>>
  /\ placeholders' = <<>>
  /\ mappingComplete' = FALSE
  /\ UNCHANGED templates
  /\ UNCHANGED <<renderVars, concVars, batchVars, uploadVars, startVars>>

\* line 363: disabled={mappedCount !== totalCount}
SaveEnabled ==
  /\ placeholders # <<>>
  /\ \A i \in 1..Len(placeholders) : placeholders[i].mappedColumn # NoColumn

\* line 142
UnmappedPlaceholders ==
  SelectSeq(placeholders, LAMBDA p : p.mappedColumn = NoColumn /\ p.name # "QRCode")

\* lines 183-185
MappingsOf(phs) ==
  [i \in 1..Len(phs) |->
     <<phs[i].name,
       IF phs[i].mappedColumn # NoColumn THEN phs[i].mappedColumn
       ELSE IF phs[i].name = "QRCode" THEN "AUTO" ELSE "">>]

\* lines 140-212, from the Save Mapping button
HandleSaveMapping ==
  /\ SaveEnabled
  /\ Len(templates) < MaxSaved
  /\ IF UnmappedPlaceholders # <<>> \/ templateFile = <<>>
     THEN UNCHANGED <<mappingComplete, templates>>
     ELSE /\ templates' = Append(templates,
                                 [file |-> templateFile[1],
                                  placeholders |-> NamesOf(placeholders),
                                  mappings |-> MappingsOf(placeholders)])
          /\ mappingComplete' = TRUE
  /\ UNCHANGED <<templateFile, placeholders>>
  /\ UNCHANGED <<renderVars, concVars, batchVars, uploadVars, startVars>>

NextMapping ==
  \/ \E f \in MappingFiles : HandleTemplateUpload(f)
  \/ \E p \in MapNames, c \in MapColumns : HandleColumnMapping(p, c)
  \/ HandleAutoMap
  \/ ResetMapping
  \/ HandleSaveMapping

SpecMapping == InitMapping /\ [][NextMapping]_vars

\* the names n for which '{{' whitespace* n whitespace* '}}' with n in
\* [A-Za-z0-9_]+ lies in xml, stated on positions
TokenNames(xml) ==
  UNION
    {{Concat(SubSeq(xml, a, b)) :
        <<a, b>> \in {r \in ((p[1] + 1)..(p[2] - 1)) \X ((p[1] + 1)..(p[2] - 1)) :
                       /\ r[1] <= r[2]
                       /\ \A k \in (p[1] + 1)..(r[1] - 1) : xml[k] \in SpaceToks
                       /\ \A k \in r[1]..r[2] : xml[k] \in WordToks
                       /\ \A k \in (r[2] + 1)..(p[2] - 1) : xml[k] \in SpaceToks}} :
       p \in {r \in (1..Len(xml)) \X (1..Len(xml)) :
                /\ r[1] < r[2]
                /\ xml[r[1]] = OB
                /\ xml[r[2]] = CB
                /\ \A k \in (r[1] + 1)..(r[2] - 1) : xml[k] \in SpaceToks \cup WordToks}}

DocOf(f) == IF f.hasDoc THEN f.doc ELSE <<>>
Unique(names) ==
  \A i, j \in 1..Len(names) : names[i] = names[j] => i = j

\* C15 as stated: after a file has been read, the placeholders are exactly
\* the distinct names of the tokens of its body, none when it has no token.
C15_ExactlyTheTokens ==
  [][\A f \in RangeOf(templateFile') :
       (HandleTemplateUpload(f) /\ f.isZip)
         => RangeOf(NamesOf(placeholders')) = TokenNames(DocOf(f))]_vars

\* C15, amended: the scan collects exactly the distinct names of the tokens,
\* in the order of their first match; the placeholders the page ends with
\* are those names followed by the standard placeholders not among them, so
\* a body with no token gives the standard list, not an empty one.
C15_TokensThenStandard ==
  [][\A f \in RangeOf(templateFile') :
       (HandleTemplateUpload(f) /\ f.isZip)
         => LET names == NamesOf(placeholders')
                found == TokenNames(DocOf(f))
                n == Cardinality(found)
            IN /\ Unique(names)
               /\ {names[i] : i \in 1..n} = found
               /\ SubSeq(names, n + 1, Len(names))
                    = SelectSeq(StandardPlaceholders, LAMBDA s : s \notin found)
               /\ RangeOf(DetectedNames(DocOf(f))) = found
               /\ (found = {} => names = StandardPlaceholders)]_vars

C15_Witness ==
  /\ templateFile # <<>>
  /\ templateFile[1].isZip
  /\ TokenNames(DocOf(templateFile[1])) = {"UnknownField", "Name"}
  /\ Len(placeholders) = Len(StandardPlaceholders) + 1
  /\ placeholders[1].name = "UnknownField"
  /\ placeholders[2].name = "Name"

\* C18: the placeholders never hold one name twice, and handleColumnMapping
\* and handleAutoMap leave the names, their number and their order as they
\* are.
C18_NamesUnique ==
  /\ [](Unique(NamesOf(placeholders)))
  /\ [][((\E p \in MapNames, c \in MapColumns : HandleColumnMapping(p, c))
          \/ HandleAutoMap)
         => NamesOf(placeholders') = NamesOf(placeholders)]_vars

C18_Witness ==
  /\ Len(placeholders) = Len(StandardPlaceholders) + 1
  /\ placeholders[1] = [name |-> "UnknownField", mappedColumn |-> "Grade"]
  /\ placeholders[2] = [name |-> "Name", mappedColumn |-> "Name"]
  /\ mappingComplete

(***************************************************************************)
(* The Upload page.  Each handler is one step; datasetService.create and   *)
(* historyService.create are taken to succeed.                             *)
(***************************************************************************)
\* line 20
REQUIRED_COLUMNS == <<"Name", "AadharNo", "DOB", "CertificateNo">>

RowFull ==
  [Name |-> "Asha Rao", AadharNo |-> "1234-5678-9012", DOB |-> "01/02/2000",
   CertificateNo |-> "CERT042"]
RowFullRD ==
  [Name |-> "R&D", AadharNo |-> "", DOB |-> "", CertificateNo |-> "", Grade |-> "A"]
RowNoAadhar == [Name |-> "Asha Rao", DOB |-> "01/02/2000", CertificateNo |-> "CERT042"]
RowNameOnly == [Name |-> "R&D"]

\* a file and what XLSX.read and sheet_to_json make of it: parses is FALSE
\* for a file XLSX.read throws on (a damaged or password-protected workbook)
SheetFile(name, parses, rows) == [name |-> name, parses |-> parses, rows |-> rows]
SheetFiles ==
  {SheetFile("full.xlsx", TRUE, <<RowFull>>),
   SheetFile("full2.xlsx", TRUE, <<RowFullRD, RowFullRD>>),
   SheetFile("noaadhar.xlsx", TRUE, <<RowNoAadhar>>),
   SheetFile("nameonly.xlsx", TRUE, <<RowNameOnly, RowNameOnly>>),
   SheetFile("nodob.xlsx", TRUE, <<[Name |-> "R&D", AadharNo |-> "", CertificateNo |-> ""]>>),
   SheetFile("empty.xlsx", TRUE, <<>>),
   SheetFile("locked.xlsx", FALSE, <<>>),
   SheetFile("damaged.xlsx", FALSE, <<>>)}

\* Object.keys(rows[0] || {})
FirstRowColumns(rows) == IF rows = <<>> THEN {} ELSE DOMAIN rows[1]

\* lines 46-54
Validate(rows) ==
  LET missingColumns ==
        SelectSeq(REQUIRED_COLUMNS, LAMBDA col : col \notin FirstRowColumns(rows))
  IN [isValid |-> Len(missingColumns) = 0,
      missingColumns |-> missingColumns,
      totalRows |-> Len(rows), validRows |-> Len(rows)]

InitUpload ==
  /\ uploadedFile = <<>>
  /\ previewData = <<>>
  /\ validation = <<>>
  /\ datasets = <<>>
  /\ RenderIdle /\ ConcIdle /\ BatchIdle /\ MappingIdle /\ StartIdle

\* lines 29-69: setUploadedFile comes before the try block; when XLSX.read
\* throws, the catch block leaves previewData and validation as they were
HandleFileUpload(f) ==
  /\ uploadedFile' = <<f>>
  /\ IF f.parses
     THEN /\ previewData' = f.rows
          /\ validation' = <<Validate(f.rows)>>
     ELSE UNCHANGED <<previewData, validation>>
  /\ UNCHANGED datasets
  /\ UNCHANGED <<renderVars, concVars, batchVars, mappingVars, startVars>>

\* lines 253-260: the Reset button, rendered when validation is set
ResetUpload ==
  /\ validation # <<>>
  /\ uploadedFile' = <<>>
  /\ previewData' = <<>>
  /\ validation' = <<>>
  /\ UNCHANGED datasets
  /\ UNCHANGED <<renderVars, concVars, batchVars, mappingVars, startVars>>

\* lines 71-113, from the Confirm button (rendered when validation is set)
HandleConfirmUpload ==
  /\ validation # <<>>
  /\ Len(datasets) < MaxSaved
  /\ IF ~validation[1].isValid \/ uploadedFile = <<>>
     THEN UNCHANGED datasets
     ELSE datasets' = Append(datasets,
                             [file_name |-> uploadedFile[1].name,
                              total_rows |-> validation[1].totalRows,
                              columns |-> FirstRowColumns(previewData),
                              data |-> previewData])
  /\ UNCHANGED <<uploadedFile, previewData, validation>>
  /\ UNCHANGED <<renderVars, concVars, batchVars, mappingVars, startVars>>

NextUpload ==
  \/ \E f \in SheetFiles : HandleFileUpload(f)
  \/ ResetUpload
  \/ HandleConfirmUpload

SpecUpload == InitUpload /\ [][NextUpload]_vars

FileNamed(n) == CHOOSE f \in SheetFiles : f.name = n
HasRequired(cols) == \A i \in 1..Len(REQUIRED_COLUMNS) : REQUIRED_COLUMNS[i] \in cols

\* C17 as stated: every dataset in the store was saved for an uploaded sheet
\* that holds all four required columns, and once a file has been handed to
\* handleFileUpload, validation.isValid is true exactly when the first row
\* of that file's sheet misses none of them.
C17_RequiredColumns ==
  /\ \A i \in 1..Len(datasets) :
       /\ FileNamed(datasets[i].file_name).parses
       /\ HasRequired(FirstRowColumns(FileNamed(datasets[i].file_name).rows))
  /\ uploadedFile # <<>>
       => ((validation # <<>> /\ validation[1].isValid)
             <=> (uploadedFile[1].parses
                    /\ HasRequired(FirstRowColumns(uploadedFile[1].rows))))

(***************************************************************************)
(* The relationship-ID guard of lines 143-148 on an archive that already   *)
(* holds the QR relationship.                                              *)
(***************************************************************************)
\* the body the engine is given for this call's template
PreEngineDoc == MarkQRCode(Repair(template.doc))
EngineAccepts == EngineRender(PreEngineDoc, Enriched(data, qrCodeDataUrl)).ok

\* C16: rendering with a QR image an archive whose manifest already holds a
\* relationship rIdQRCodeImage inserts no second one and does not fail for
\* it: the call throws only when the substitution engine rejects the body,
\* and past the injection step the manifest holds exactly one relationship
\* with that Id.
C16_NoSecondRelationship ==
  (qrCodeDataUrl = QrPng /\ template.isZip /\ template.hasRels
     /\ HasQrRid(template.rels))
    => /\ pc \in {"threw", "rejected"} => ~EngineAccepts
       /\ pc \in {"generate", "done"} => CountOf(zip.rels, RelQR) = 1
       /\ Returned => /\ CountOf(out[1].rels, RelQR) = 1
                      /\ out[1].rels = template.rels

C16_Witness ==
  /\ Returned
  /\ qrCodeDataUrl = QrPng
  /\ HasQrRid(template.rels)
  /\ ContainsTok(OutDoc, TBlip)
  /\ CountOf(out[1].rels, RelQR) = 1

(***************************************************************************)
(* The order of the marker replacements, lines 179-247.  The block runs    *)
(* when a QR image is supplied (line 130) and the archive has a manifest   *)
(* (line 141).                                                             *)
(***************************************************************************)
\* the body the engine hands to the injection block
PreInjectDoc == EngineRender(PreEngineDoc, Enriched(data, qrCodeDataUrl)).xml
\* line 181 alone
AfterInline(xml) == ReplaceAll(PatMarkerPlain, Lits(DrawingXml), xml)

C20_PipelineOrder ==
  /\ []((template.isZip /\ template.hasDoc)
          => /\ pc = "render"
                  => /\ ~HasQRPlaceholder(zip.doc)
                     /\ ~ContainsSeq(zip.doc, PlaceholderTok("QRCode"))
             /\ Returned => out = RenderAlone(template, data, qrCodeDataUrl))
  /\ [][/\ (pc = "start" /\ template.isZip)
            => pc' = "repair" /\ zip' = OpenedZip(template)
        /\ (pc = "repair" /\ zip.hasDoc)
            => pc' = "mark" /\ zip' = [zip EXCEPT !.doc = Repair(zip.doc)]
        /\ (pc = "mark" /\ zip.hasDoc)
            => pc' = "render" /\ zip' = [zip EXCEPT !.doc = MarkQRCode(zip.doc)]
        /\ (pc = "render" /\ zip.hasDoc /\ pc' # "threw")
            => /\ pc' = "inject"
               /\ zip' = [zip EXCEPT !.doc =
                            EngineRender(zip.doc, Enriched(data, qrCodeDataUrl)).xml]
        /\ pc = "inject"
            => pc' = "generate" /\ zip' = InjectedZip(zip, qrCodeDataUrl)
        /\ pc = "generate"
            => pc' = "done" /\ out' = <<zip>>]_vars

\* the engine is about to run on a body whose {{QRCode}} was split across
\* runs in the template: repaired first, then marked
C20_Witness ==
  /\ pc = "render"
  /\ template.doc = SplitQRBody
  /\ ~HasQRPlaceholder(template.doc)
  /\ HasQRPlaceholder(Repair(template.doc))
  /\ ContainsSeq(zip.doc, Marker)

(***************************************************************************)
(* Placeholders split by proofing tags, lines 21-44 and 65-82.             *)
(***************************************************************************)
\* C21 as stated: a placeholder split as {{ (with or without the first
\* characters of the name), proofing tag, run with the rest of the name,
\* proofing tag, run with }} is one contiguous {{name}} after the repair, the
\* extractor on the repaired body reports the name, and the returned body
\* holds the mapped value and no braces.
C21_ProofSplitRepaired ==
  \A c \in ProofSplitCases :
    template.doc = c.doc
      => /\ pc = "mark"
              => /\ ExtractPlaceholders(zip.doc) = {c.name}
                 /\ TagsOf(zip.doc) = TagsOf(Body(<<PlaceholderTok(c.name)>>, <<1>>))
         /\ (Returned /\ c.name \in DOMAIN data)
              => /\ HasText(OutDoc, data[c.name])
                 /\ ~ContainsTok(OutDoc, OB)
                 /\ ~ContainsTok(OutDoc, CB)

(***************************************************************************)
(* Placeholders in a row, lines 46-63.                                     *)
(***************************************************************************)
\* C22 as stated: after one run of the repair passes, k >= 2 complete
\* placeholders in a row, separated by a run close, one formatting element
\* and a run open, are the k placeholders in their order with exactly one
\* space and no markup between neighbours.
C22_ChainJoined ==
  \A c \in ChainCases :
    (template.doc = c.doc /\ pc = "mark")
      => zip.doc = <<TBodyO>> \o Paragraph(Chain(1, c.k, <<SP>>)) \o <<TBodyC>>

(***************************************************************************)
(* The spans the repair rewrites match.                                    *)
(***************************************************************************)
\* the spans <<first, last>> that s.replace(/pat/g, ...) replaces
RECURSIVE SpansFrom(_, _, _)
SpansFrom(pat, s, i) ==
  IF i > Len(s) THEN {}
  ELSE LET m == MatchFrom(pat, 1, s, i, NoCaps)
       IN IF m # <<>>
          THEN {<<i, m[1].end - 1>>} \cup SpansFrom(pat, s, m[1].end)
          ELSE SpansFrom(pat, s, i + 1)

\* the input of the k-th rewrite
BeforePass(k, xml) == ApplyPasses(SubSeq(RepairPasses, 1, k - 1), 1, xml)

\* the k-th rewrite replaces a span of its input that holds the end or the
\* start of a paragraph
CrossesParagraph(k, xml) ==
  LET in == BeforePass(k, xml)
  IN \E sp \in SpansFrom(RepairPasses[k][1], in, 1) :
       \E j \in sp[1]..sp[2] : in[j] \in {TParaO, TParaC}

ParagraphsOf(xml) == Cardinality({j \in 1..Len(xml) : xml[j] = TParaO})

\* C23 as stated: no repair rewrite matches across a paragraph boundary, and
\* the repaired body has the paragraphs of the template, each with the text
\* it had.
C23_WithinParagraph ==
  (pc = "mark" /\ zip.hasDoc)
    => /\ \A k \in 1..Len(RepairPasses) : ~CrossesParagraph(k, template.doc)
       /\ ParagraphsOf(zip.doc) = ParagraphsOf(template.doc)

(***************************************************************************)
(* What the repair rewrites leave alone, lines 21-85.                      *)
(***************************************************************************)
RECURSIVE IsSubseq(_, _)
IsSubseq(a, b) ==
  IF a = <<>> THEN TRUE
  ELSE IF b = <<>> THEN FALSE
  ELSE IF Head(a) = Head(b) THEN IsSubseq(Tail(a), Tail(b))
  ELSE IsSubseq(a, Tail(b))

\* the character data of a part without its whitespace
InkOf(xml) == SelectSeq(xml, LAMBDA t : t \notin Tags /\ t \notin SpaceToks)
FirstIx(xml, t) ==
  IF ContainsTok(xml, t)
  THEN CHOOSE i \in 1..Len(xml) :
         xml[i] = t /\ \A j \in 1..(i - 1) : xml[j] # t
  ELSE 0
LastIx(xml, t) ==
  IF ContainsTok(xml, t)
  THEN CHOOSE i \in 1..Len(xml) :
         xml[i] = t /\ \A j \in (i + 1)..Len(xml) : xml[j] # t
  ELSE 0
\* what comes before the first {{ and what comes after the last }}
HeadOf(xml) == SubSeq(xml, 1, FirstIx(xml, OB) - 1)
TailOf(xml) == SubSeq(xml, LastIx(xml, CB) + 1, Len(xml))

C25_OneFetchPerBatch ==
  (gpc = "done" /\ selectedTp.file_url) => fetches = 1

(***************************************************************************)
(* The Generate page again, now with the Start button, several invocations *)
(* of handleStartGeneration and datastore calls that may throw: every      *)
(* service method throws the error the datastore returns (supabase.ts      *)
(* lines 251-272, 308-316, 343-352).  A step is the code between two       *)
(* awaits.  The local job keeps the fields the page reads; its progress is *)
(* currentRow / totalRows.                                                 *)
(***************************************************************************)
NumStarts == 2
StartIds == 1..NumStarts

NotStarted(n) == [pc |-> "idle", id |-> 0, i |-> 0, total |-> n, threw |-> "none"]

InitStart ==
  /\ currentJob = <<>>
  /\ jobStore = <<>>
  /\ \E n \in 1..MaxRows : starts = [c \in StartIds |-> NotStarted(n)]
  /\ RenderIdle /\ ConcIdle /\ BatchIdle /\ UploadIdle /\ MappingIdle

\* line 1034: disabled={... || currentJob?.status === 'running'}, the
\* dataset and the template being selected
StartEnabled == ~(currentJob # <<>> /\ currentJob[1].status = "running")

\* setCurrentJob(prev => prev ? {...prev, <fields>} : null)
UpdateCurrentJob(prev, status, currentRow) ==
  IF prev = <<>> THEN <<>>
  ELSE <<[prev[1] EXCEPT !.status = status, !.currentRow = currentRow]>>

\* lines 725-736: the catch block of handleStartGeneration
CatchBlock(c, at) ==
  /\ currentJob' = (IF currentJob = <<>> THEN <<>>
                    ELSE UpdateCurrentJob(currentJob, "failed", currentJob[1].currentRow))
  /\ starts' = [starts EXCEPT ![c].pc = "returned", ![c].threw = at]
  /\ jobStore' = jobStore

\* lines 1031-1040 and 438-475: a click on Start runs the handler up to the
\* await of line 476
ClickStart(c) ==
  /\ starts[c].pc = "idle"
  /\ StartEnabled
  /\ starts' = [starts EXCEPT ![c].pc = "create"]
  /\ UNCHANGED <<currentJob, jobStore>>
  /\ UNCHANGED <<renderVars, concVars, batchVars, uploadVars, mappingVars>>

\* lines 476-489: generationJobService.create resolves or throws
JobCreated(c) ==
  /\ starts[c].pc = "create"
  /\ \E ok \in BOOLEAN :
       IF ok
       THEN /\ jobStore' = Append(jobStore, [status |-> "running", progress |-> 0,
                                             current_row |-> 0])
            /\ currentJob' = <<[id |-> Len(jobStore) + 1, status |-> "running",
                                currentRow |-> 0, totalRows |-> starts[c].total]>>
            /\ starts' = [starts EXCEPT ![c].pc = "progress",
                                        ![c].id = Len(jobStore) + 1]
       ELSE CatchBlock(c, "create")
  /\ UNCHANGED <<renderVars, concVars, batchVars, uploadVars, mappingVars>>

\* lines 492-507: one turn of the progress loop
ProgressTurn(c) ==
  /\ starts[c].pc = "progress"
  /\ \E ok \in BOOLEAN :
       LET i == starts[c].i + 1
           shown == IF currentJob = <<>> THEN <<>>
                    ELSE UpdateCurrentJob(currentJob, currentJob[1].status, i)
       IN IF ok
          THEN /\ currentJob' = shown
               /\ jobStore' = [jobStore EXCEPT
                                 ![starts[c].id].progress = ProgressOf(i, starts[c].total),
                                 ![starts[c].id].current_row = i]
               /\ starts' = [starts EXCEPT
                               ![c].i = i,
                               ![c].pc = IF i = starts[c].total THEN "rows" ELSE "progress"]
          ELSE /\ currentJob' = (IF shown = <<>> THEN <<>>
                                 ELSE UpdateCurrentJob(shown, "failed", i))
               /\ starts' = [starts EXCEPT ![c].pc = "returned", ![c].threw = "progress"]
               /\ jobStore' = jobStore
  /\ UNCHANGED <<renderVars, concVars, batchVars, uploadVars, mappingVars>>

\* lines 510-693: the loop over the rows, each row's errors caught at 664
RowsLoop(c) ==
  /\ starts[c].pc = "rows"
  /\ starts' = [starts EXCEPT ![c].pc = "save"]
  /\ UNCHANGED <<currentJob, jobStore>>
  /\ UNCHANGED <<renderVars, concVars, batchVars, uploadVars, mappingVars>>

\* line 696: certificateService.createBatch resolves or throws
BatchSaved(c) ==
  /\ starts[c].pc = "save"
  /\ \E ok \in BOOLEAN :
       IF ok
       THEN /\ starts' = [starts EXCEPT ![c].pc = "complete"]
            /\ UNCHANGED <<currentJob, jobStore>>
       ELSE CatchBlock(c, "save")
  /\ UNCHANGED <<renderVars, concVars, batchVars, uploadVars, mappingVars>>

\* lines 699-715: generationJobService.update(job.id, {status: 'completed'})
JobCompleted(c) ==
  /\ starts[c].pc = "complete"
  /\ \E ok \in BOOLEAN :
       IF ok
       THEN /\ jobStore' = [jobStore EXCEPT ![starts[c].id].status = "completed",
                                            ![starts[c].id].progress = 100]
            /\ currentJob' = (IF currentJob = <<>> THEN <<>>
                              ELSE UpdateCurrentJob(currentJob, "completed",
                                                    currentJob[1].currentRow))
            /\ starts' = [starts EXCEPT ![c].pc = "history"]
       ELSE CatchBlock(c, "complete")
  /\ UNCHANGED <<renderVars, concVars, batchVars, uploadVars, mappingVars>>

\* lines 717-724: historyService.create resolves or throws
HistoryRecorded(c) ==
  /\ starts[c].pc = "history"
  /\ \E ok \in BOOLEAN :
       IF ok
       THEN /\ starts' = [starts EXCEPT ![c].pc = "returned"]
            /\ UNCHANGED <<currentJob, jobStore>>
       ELSE CatchBlock(c, "history")
  /\ UNCHANGED <<renderVars, concVars, batchVars, uploadVars, mappingVars>>

NextStart ==
  \E c \in StartIds :
    \/ ClickStart(c)
    \/ JobCreated(c)
    \/ ProgressTurn(c)
    \/ RowsLoop(c)
    \/ BatchSaved(c)
    \/ JobCompleted(c)
    \/ HistoryRecorded(c)

SpecStart == InitStart /\ [][NextStart]_vars

\* C26 as stated: once an invocation that created a job record has
\* returned, the persisted record is 'completed' when no step threw and
\* 'failed' when the progress update, the batch save or the job update
\* threw; it is never still 'running'.
C26_JobReachesTerminal ==
  \A c \in StartIds :
    (starts[c].pc = "returned" /\ starts[c].id # 0)
      => /\ jobStore[starts[c].id].status \in {"completed", "failed"}
         /\ starts[c].threw = "none" => jobStore[starts[c].id].status = "completed"
         /\ starts[c].threw \in {"progress", "save", "complete"}
              => jobStore[starts[c].id].status = "failed"

\* C27 as stated: at most one invocation at a time has created a job and
\* not yet returned.
C27_OneRunningJob ==
  Cardinality({c \in StartIds : starts[c].id # 0 /\ starts[c].pc # "returned"}) <= 1

\* C28 as stated: for every row handed to the renderer and every
\* placeholder p the saved template maps to a column c, the value passed
\* for p is the row's value of column c.
C28_MappingsConsumed ==
  \A i \in 1..rowIx :
    rendered[i] # "nofile"
      => \A p \in DOMAIN selectedTp.mappings :
           MappedData(selectedDs.data[i], QrDataOf(includeQRCode))[p]
             = Field(selectedDs.data[i], selectedTp.mappings[p])

(***************************************************************************)
(* The mapping page with the columns chosen by hand: the user goes down    *)
(* the list of placeholders and picks a column for the first one that has  *)
(* none.  QRCode is the last of the standard placeholders, so the list can *)
(* be mapped down to it.                                                   *)
(***************************************************************************)
FirstUnmapped ==
  LET un == SelectSeq(placeholders, LAMBDA p : p.mappedColumn = NoColumn)
  IN IF un = <<>> THEN {} ELSE {un[1].name}

\* a file that is no archive, a body with no token and a body that holds
\* {{UnknownField}} and {{Name}}
ByHandFiles ==
  {NotAnArchive}
  \cup {Archive(Body(OtherFragments, ix), TRUE, RelsPlain, {}) : ix \in {<<1>>, <<4, 2>>}}

NextMappingByHand ==
  \/ \E f \in ByHandFiles : HandleTemplateUpload(f)
  \/ \E p \in FirstUnmapped, c \in MapColumns : HandleColumnMapping(p, c)
  \/ HandleAutoMap
  \/ ResetMapping
  \/ HandleSaveMapping

SpecMappingByHand == InitMapping /\ [][NextMappingByHand]_vars

\* only QRCode has no column
OnlyQRCodeUnmapped ==
  /\ templateFile # <<>>
  /\ placeholders # <<>>
  /\ \A i \in 1..Len(placeholders) :
       placeholders[i].mappedColumn = NoColumn <=> placeholders[i].name = "QRCode"

\* C29 as stated: when only QRCode has no column the Save Mapping button can
\* be used, and the record it saves holds QRCode as 'AUTO'; while any other
\* placeholder has no column no template record is created.
C29_QRCodeDoesNotBlock ==
  /\ [](OnlyQRCodeUnmapped => SaveEnabled)
  /\ [][(OnlyQRCodeUnmapped /\ templates' # templates)
          => <<"QRCode", "AUTO">> \in RangeOf(templates'[Len(templates')].mappings)]_vars
  /\ [][UnmappedPlaceholders # <<>> => templates' = templates]_vars

\* C30 as stated: whatever the template and the data, the data URL passed as
\* qrCodeDataUrl is not text of the body returned.
C30_PayloadNeverText ==
  (Returned /\ out[1].hasDoc /\ qrCodeDataUrl = QrPng) => ~HasText(OutDoc, QrPng)

====
